---- MODULE Spec2Model ----
(***************************************************************************)
(* Model of src/arch/simddetect.cpp: the SIMDDetect constructor (CPU       *)
(* capability detection and the initial binding of DotProduct) and         *)
(* SIMDDetect::Update() (binding of DotProduct from the configuration      *)
(* variable `dotproduct` and the write-back of the effective method).      *)
(***************************************************************************)
EXTENDS Integers, Sequences, FiniteSets, TLC

VARIABLES
  build,                \* build variant selected by the preprocessor
  cpu,                  \* what the CPUID instruction of the host answers
  pc,                   \* "static_init", "constructed" or "running"
  DotProduct,           \* the global function pointer
  dotproduct,           \* value of the STRING_VAR dotproduct
  sse_available_,
  avx_available_,
  avx2_available_,
  avx512F_available_,
  avx512BW_available_,
  queried,              \* CPUID leaves the constructor has consulted
  tprintf_out,          \* lines printed by the most recent operation
  detected,             \* the flags as they were when the constructor returned
  trace                 \* snapshots around the latest successive Update() calls

flags == <<sse_available_, avx_available_, avx2_available_,
           avx512F_available_, avx512BW_available_>>

vars == <<build, cpu, pc, DotProduct, dotproduct, sse_available_,
          avx_available_, avx2_available_, avx512F_available_,
          avx512BW_available_, queried, tprintf_out, detected, trace>>

----------------------------------------------------------------------------
(* Bounds and sampled inputs *)

\* Number of snapshots kept in trace (a sliding window over Update() calls).
MaxTrace == 3

\* Bit masks used by the constructor (hexadecimal in the source).
SSE4_1_MASK   == 524288        \* 0x00080000, leaf 1 ecx
AVX_MASK      == 268435456     \* 0x10000000, leaf 1 ecx
AVX2_MASK     == 32            \* 0x00000020, leaf 7 ebx
AVX512F_MASK  == 65536         \* 0x00010000, leaf 7 ebx
AVX512BW_MASK == 1073741824    \* 0x40000000, leaf 7 ebx

Builds == {"gnu_x86", "win_x86", "other"}

\* Highest basic CPUID leaf the host supports (0: leaf 1 is not available).
MaxLeaves == {0, 1, 7}

\* Register words the host may answer: every combination of the bits the
\* detector tests, with and without a bit it ignores (SSE3 in ecx, BMI1 in ebx).
Leaf1Ecx == {a + b + c : a \in {0, 1}, b \in {0, SSE4_1_MASK},
                         c \in {0, AVX_MASK}}

Leaf7Ebx == {a + b + c + d : a \in {0, 8}, b \in {0, AVX2_MASK},
                             c \in {0, AVX512F_MASK}, d \in {0, AVX512BW_MASK}}

Hosts == [max_leaf : MaxLeaves, leaf1_ecx : Leaf1Ecx, leaf7_ebx : Leaf7Ebx]

\* Values the configuration variable is given: the five names the code knows
\* and three it does not (empty, wrong case, a name of a flag without kernel).
PreferenceStrings == {"auto", "generic", "native", "avx", "sse", "", "AVX", "avx2"}

NullFunction == "nullptr"

Kernels == {"DotProductGeneric", "DotProductNative", "DotProductSSE", "DotProductAVX"}

----------------------------------------------------------------------------
(* Helpers *)

\* The C operator & on non-negative integers.
RECURSIVE BitAnd(_, _)
BitAnd(x, y) ==
  IF x = 0 \/ y = 0 THEN 0
  ELSE (x % 2) * (y % 2) + 2 * BitAnd(x \div 2, y \div 2)

X86_BUILD == build \in {"gnu_x86", "win_x86"}

\* DetectedFlags with the leaf 7 query not gated by the AVX bit.
DetectedFlagsUngated(b, host) ==
  LET none == [sse |-> FALSE, avx |-> FALSE, avx2 |-> FALSE,
               avx512F |-> FALSE, avx512BW |-> FALSE]
      sse  == BitAnd(host.leaf1_ecx, SSE4_1_MASK) # 0
      avx  == BitAnd(host.leaf1_ecx, AVX_MASK) # 0
  IN  IF b = "gnu_x86" /\ host.max_leaf >= 1
      THEN [sse |-> sse, avx |-> avx,
            avx2     |-> BitAnd(host.leaf7_ebx, AVX2_MASK) # 0,
            avx512F  |-> BitAnd(host.leaf7_ebx, AVX512F_MASK) # 0,
            avx512BW |-> BitAnd(host.leaf7_ebx, AVX512BW_MASK) # 0]
      ELSE IF b = "win_x86" /\ host.max_leaf >= 1
      THEN [none EXCEPT !.sse = sse, !.avx = avx]
      ELSE none

\* Lines 87-116: the five flags when the constructor returns. The flags are
\* statics, so a flag the constructor does not assign stays false.
DetectedFlags(b, host) ==
  LET none == [sse |-> FALSE, avx |-> FALSE, avx2 |-> FALSE,
               avx512F |-> FALSE, avx512BW |-> FALSE]
      sse  == BitAnd(host.leaf1_ecx, SSE4_1_MASK) # 0
      avx  == BitAnd(host.leaf1_ecx, AVX_MASK) # 0
  IN  CASE b = "gnu_x86" ->
             IF host.max_leaf >= 1        \* __get_cpuid(1, ...) != 0
             THEN IF avx
                  THEN [sse |-> sse, avx |-> avx,
                        avx2     |-> BitAnd(host.leaf7_ebx, AVX2_MASK) # 0,
                        avx512F  |-> BitAnd(host.leaf7_ebx, AVX512F_MASK) # 0,
                        avx512BW |-> BitAnd(host.leaf7_ebx, AVX512BW_MASK) # 0]
                  ELSE [none EXCEPT !.sse = sse, !.avx = avx]
             ELSE none
        [] b = "win_x86" ->
             IF host.max_leaf >= 1        \* cpuInfo[0] >= 1
             THEN [none EXCEPT !.sse = sse, !.avx = avx]
             ELSE none
        [] OTHER -> none

\* Lines 87-116: the CPUID leaves the constructor asks for. __get_cpuid reads
\* leaf 0 for the highest leaf before it reads the leaf it was asked for.
QueriedLeaves(b, host) ==
  CASE b = "gnu_x86" ->
         {0} \cup (IF host.max_leaf >= 1 THEN {1} ELSE {})
             \cup (IF host.max_leaf >= 1 /\ BitAnd(host.leaf1_ecx, AVX_MASK) # 0
                   THEN {7} ELSE {})
    [] b = "win_x86" ->
         {0} \cup (IF host.max_leaf >= 1 THEN {1} ELSE {})
    [] OTHER -> {}

\* InitialKernel without the fallback of line 85.
InitialKernelNoFallback(b, avx, sse) ==
  IF b \in {"gnu_x86", "win_x86"}
  THEN IF avx THEN "DotProductAVX"
       ELSE IF sse THEN "DotProductSSE"
       ELSE NullFunction
  ELSE NullFunction

\* InitialKernel with the tests of lines 120 and 123 in the other order.
InitialKernelSSEFirst(b, avx, sse) ==
  IF b \in {"gnu_x86", "win_x86"}
  THEN IF sse THEN "DotProductSSE"
       ELSE IF avx THEN "DotProductAVX"
       ELSE "DotProductGeneric"
  ELSE "DotProductGeneric"

\* Lines 85 and 118-127: the kernel bound when the constructor returns.
InitialKernel(b, avx, sse) ==
  IF b \in {"gnu_x86", "win_x86"}
  THEN IF avx THEN "DotProductAVX"
       ELSE IF sse THEN "DotProductSSE"
       ELSE "DotProductGeneric"
  ELSE "DotProductGeneric"

\* SelectedKernel with "auto" falling back to the generic kernel.
SelectedKernelAutoGeneric(value, current) ==
  IF value = "auto" THEN "DotProductGeneric"
  ELSE IF value = "generic" THEN "DotProductGeneric"
  ELSE IF value = "native" THEN "DotProductNative"
  ELSE IF X86_BUILD /\ value = "avx" THEN "DotProductAVX"
  ELSE IF X86_BUILD /\ value = "sse" THEN "DotProductSSE"
  ELSE current

\* SelectedKernel with "avx" and "sse" honoured only if the flag is set.
SelectedKernelChecked(value, current) ==
  IF value = "auto" THEN current
  ELSE IF value = "generic" THEN "DotProductGeneric"
  ELSE IF value = "native" THEN "DotProductNative"
  ELSE IF X86_BUILD /\ value = "avx"
       THEN IF avx_available_ THEN "DotProductAVX" ELSE current
  ELSE IF X86_BUILD /\ value = "sse"
       THEN IF sse_available_ THEN "DotProductSSE" ELSE current
  ELSE current

\* Lines 134-165: the function DotProduct points to after the branches of
\* Update(), given the value of the variable and the current binding.
SelectedKernel(value, current) ==
  IF value = "auto" THEN current
  ELSE IF value = "generic" THEN "DotProductGeneric"
  ELSE IF value = "native" THEN "DotProductNative"
  ELSE IF X86_BUILD /\ value = "avx" THEN "DotProductAVX"
  ELSE IF X86_BUILD /\ value = "sse" THEN "DotProductSSE"
  ELSE current

\* dotproduct_method with the value of the variable kept on rejection.
dotproduct_method_keep(value) ==
  IF value = "auto" THEN "generic"
  ELSE IF value = "generic" THEN "generic"
  ELSE IF value = "native" THEN "native"
  ELSE IF X86_BUILD /\ value = "avx" THEN "avx"
  ELSE IF X86_BUILD /\ value = "sse" THEN "sse"
  ELSE value

\* dotproduct_method without the assignment of line 153.
dotproduct_method_sse_unset(value) ==
  IF value = "auto" THEN "generic"
  ELSE IF value = "generic" THEN "generic"
  ELSE IF value = "native" THEN "native"
  ELSE IF X86_BUILD /\ value = "avx" THEN "avx"
  ELSE "generic"

\* dotproduct_method with "auto" written back as "auto".
dotproduct_method_auto_sticky(value) ==
  IF value = "auto" THEN "auto"
  ELSE IF value = "generic" THEN "generic"
  ELSE IF value = "native" THEN "native"
  ELSE IF X86_BUILD /\ value = "avx" THEN "avx"
  ELSE IF X86_BUILD /\ value = "sse" THEN "sse"
  ELSE "generic"

\* Lines 133-155: the local dotproduct_method when line 167 is reached.
dotproduct_method(value) ==
  IF value = "auto" THEN "generic"
  ELSE IF value = "generic" THEN "generic"
  ELSE IF value = "native" THEN "native"
  ELSE IF X86_BUILD /\ value = "avx" THEN "avx"
  ELSE IF X86_BUILD /\ value = "sse" THEN "sse"
  ELSE "generic"

\* Lines 160-164: the list printed in the second diagnostic line.
SupportValues ==
  IF X86_BUILD THEN <<"auto", "generic", "native", "avx", "sse">>
  ELSE <<"auto", "generic", "native">>

\* Lines 156-165: what Update() prints.
Diagnostics(value) ==
  IF \/ value \in {"auto", "generic", "native"}
     \/ X86_BUILD /\ value \in {"avx", "sse"}
  THEN << >>
  ELSE << <<"Warning, ignoring unsupported config variable value: dotproduct=", value>>,
          <<"Support values for dotproduct:", SupportValues>> >>

Snapshot == [DotProduct |-> DotProduct, dotproduct |-> dotproduct,
             out |-> tprintf_out]

\* The last MaxTrace entries of s.
LastEntries(s) ==
  IF Len(s) <= MaxTrace THEN s ELSE SubSeq(s, Len(s) - MaxTrace + 1, Len(s))

----------------------------------------------------------------------------
(* State machine *)

\* Static initialisation has zero-initialised DotProduct and the flags and
\* has built the STRING_VAR with its default; the detector is not built yet.
Init ==
  /\ build \in Builds
  /\ cpu \in Hosts
  /\ pc = "static_init"
  /\ DotProduct = NullFunction
  /\ dotproduct = "auto"
  /\ sse_available_ = FALSE
  /\ avx_available_ = FALSE
  /\ avx2_available_ = FALSE
  /\ avx512F_available_ = FALSE
  /\ avx512BW_available_ = FALSE
  /\ queried = {}
  /\ tprintf_out = << >>
  /\ detected = << >>
  /\ trace = << >>

\* SIMDDetect::SIMDDetect(), run once for the static member detector.
Construct ==
  /\ pc = "static_init"
  /\ LET f == DetectedFlags(build, cpu)
     IN  /\ sse_available_' = f.sse
         /\ avx_available_' = f.avx
         /\ avx2_available_' = f.avx2
         /\ avx512F_available_' = f.avx512F
         /\ avx512BW_available_' = f.avx512BW
         /\ DotProduct' = InitialKernel(build, f.avx, f.sse)
  /\ queried' = QueriedLeaves(build, cpu)
  /\ detected' = flags'
  /\ pc' = "constructed"
  /\ tprintf_out' = << >>
  /\ trace' = << >>
  /\ UNCHANGED <<build, cpu, dotproduct>>

\* Update() that also clears the capability flags.
UpdateClearsFlags ==
  /\ pc # "static_init"
  /\ DotProduct' = SelectedKernel(dotproduct, DotProduct)
  /\ tprintf_out' = Diagnostics(dotproduct)
  /\ dotproduct' = dotproduct_method(dotproduct)
  /\ pc' = "running"
  /\ trace' = LastEntries(Append(IF trace = << >> THEN <<Snapshot>> ELSE trace,
                                 Snapshot'))
  /\ sse_available_' = FALSE
  /\ avx_available_' = FALSE
  /\ avx2_available_' = FALSE
  /\ avx512F_available_' = FALSE
  /\ avx512BW_available_' = FALSE
  /\ UNCHANGED <<build, cpu, queried, detected>>

\* SIMDDetect::Update().
Update ==
  /\ pc # "static_init"
  /\ DotProduct' = SelectedKernel(dotproduct, DotProduct)
  /\ tprintf_out' = Diagnostics(dotproduct)
  /\ dotproduct' = dotproduct_method(dotproduct)
  /\ pc' = "running"
  /\ trace' = LastEntries(Append(IF trace = << >> THEN <<Snapshot>> ELSE trace,
                                 Snapshot'))
  /\ UNCHANGED <<build, cpu, flags, queried, detected>>

\* The parameter subsystem gives the variable a new value (a config file,
\* SetVariable): the external change of the configuration.
SetValue(value) ==
  /\ pc # "static_init"
  /\ dotproduct' = value
  /\ tprintf_out' = << >>
  /\ trace' = << >>
  /\ UNCHANGED <<build, cpu, pc, DotProduct, flags, queried, detected>>

Next ==
  \/ Construct
  \/ Update
  \/ \E value \in PreferenceStrings : SetValue(value)

Spec == Init /\ [][Next]_vars

----------------------------------------------------------------------------
(* Properties *)

\* trace[i] and trace[i+1] are the states before and after one Update() call;
\* trace[i+1] and trace[i+2] those of the call that follows it directly.
Calls == 1 .. (Len(trace) - 1)
CallPairs == 1 .. (Len(trace) - 2)

\* The vocabulary of the build target as the documentation gives it.
Vocabulary ==
  IF X86_BUILD THEN {"auto", "generic", "native", "avx", "sse"}
  ELSE {"auto", "generic", "native"}

Concrete == Vocabulary \ {"auto"}

KernelNamed(p) ==
  CASE p = "generic" -> "DotProductGeneric"
    [] p = "native"  -> "DotProductNative"
    [] p = "avx"     -> "DotProductAVX"
    [] p = "sse"     -> "DotProductSSE"

\* C1: an Update() call made while the stored preference is "auto" leaves
\* the stored preference equal to "auto".
C1_AutoIsSticky ==
  \A i \in Calls :
    trace[i].dotproduct = "auto" => trace[i + 1].dotproduct = "auto"

\* C2: an Update() call made while the stored preference is "auto" leaves
\* DotProduct as it was, whatever kernel was bound.
C2_AutoKeepsKernel ==
  \A i \in Calls :
    trace[i].dotproduct = "auto" => trace[i + 1].DotProduct = trace[i].DotProduct

C2_Witness ==
  /\ Len(trace) >= 2
  /\ trace[1].dotproduct = "auto"
  /\ trace[1].DotProduct = "DotProductNative"

\* C3: an Update() call made with a stored preference outside the vocabulary
\* of the build target leaves DotProduct unchanged, prints the two diagnostic
\* lines (the value, then the list of the build target) and stores "generic".
C3_UnsupportedValue ==
  \A i \in Calls :
    trace[i].dotproduct \notin Vocabulary =>
      /\ trace[i + 1].DotProduct = trace[i].DotProduct
      /\ Len(trace[i + 1].out) = 2
      /\ trace[i + 1].out[1][2] = trace[i].dotproduct
      /\ {trace[i + 1].out[2][2][k] : k \in DOMAIN trace[i + 1].out[2][2]} = Vocabulary
      /\ trace[i + 1].dotproduct = "generic"

C3_Witness ==
  /\ Len(trace) >= 2
  /\ ~X86_BUILD
  /\ trace[1].dotproduct = "avx"
  /\ trace[1].DotProduct = "DotProductNative"
  /\ dotproduct = "generic"

\* C4: an Update() call made with an accepted concrete preference p binds
\* DotProduct to the kernel named by p and leaves p stored, whatever the
\* capability flags are.
C4_ConcreteBindsNamedKernel ==
  \A i \in Calls :
    trace[i].dotproduct \in Concrete =>
      /\ trace[i + 1].DotProduct = KernelNamed(trace[i].dotproduct)
      /\ trace[i + 1].dotproduct = trace[i].dotproduct

C4_Witness ==
  /\ Len(trace) >= 2
  /\ trace[1].dotproduct = "avx"
  /\ ~avx_available_
  /\ trace[2].DotProduct = "DotProductAVX"

\* C5: on an x86 build, two successive Update() calls starting with stored
\* preference "sse" give the same DotProduct and the same stored preference
\* as the first call alone.
C5_SseIdempotent ==
  \A i \in CallPairs :
    (X86_BUILD /\ trace[i].dotproduct = "sse") =>
      /\ trace[i + 2].DotProduct = trace[i + 1].DotProduct
      /\ trace[i + 2].dotproduct = trace[i + 1].dotproduct

C5_Witness ==
  /\ X86_BUILD
  /\ Len(trace) >= 3
  /\ trace[1].dotproduct = "sse"
  /\ trace[1].DotProduct = "DotProductAVX"
  /\ trace[3].DotProduct = "DotProductSSE"

\* C6: once the constructor has run, DotProduct is one of the four known
\* kernels and never null.
C6_AlwaysBound ==
  pc # "static_init" => DotProduct \in Kernels

C6_Witness ==
  /\ pc = "running"
  /\ Len(trace) >= 3
  /\ trace[1].dotproduct = "avx2"
  /\ ~sse_available_ /\ ~avx_available_
  /\ DotProduct = "DotProductGeneric"

\* C7: after the constructor, without AVX none of AVX2, AVX512F, AVX512BW is
\* reported, and leaf 7 has been consulted only if leaf 1 was read and its
\* AVX bit is set.
C7_GatedBehindAVX ==
  pc # "static_init" =>
    /\ ~avx_available_ =>
         (~avx2_available_ /\ ~avx512F_available_ /\ ~avx512BW_available_)
    /\ 7 \in queried =>
         (1 \in queried /\ (cpu.leaf1_ecx \div AVX_MASK) % 2 = 1)

C7_Witness ==
  /\ pc = "constructed"
  /\ build = "gnu_x86"
  /\ ~avx_available_
  /\ sse_available_
  /\ (cpu.leaf7_ebx \div AVX2_MASK) % 2 = 1
  /\ 1 \in queried

\* C8: right after the constructor, before any Update(), DotProduct is
\* DotProductAVX if avx_available_, else DotProductSSE if sse_available_,
\* else DotProductGeneric; it is DotProductGeneric on a non-x86 build and
\* when leaf 1 cannot be read.
C8_InitialBinding ==
  pc = "constructed" =>
    /\ DotProduct = IF avx_available_ THEN "DotProductAVX"
                    ELSE IF sse_available_ THEN "DotProductSSE"
                    ELSE "DotProductGeneric"
    /\ (~X86_BUILD \/ cpu.max_leaf = 0) => DotProduct = "DotProductGeneric"

C8_Witness ==
  /\ pc = "constructed"
  /\ avx_available_ /\ sse_available_
  /\ DotProduct = "DotProductAVX"
  /\ dotproduct = "sse"

\* C9: Update() leaves the five capability flags unchanged, so after any
\* sequence of Update() calls they are what the constructor left.
C9_FlagsFrozen ==
  pc = "running" => flags = detected

C9_Witness ==
  /\ pc = "running"
  /\ Len(trace) >= 3
  /\ avx_available_ /\ avx2_available_ /\ ~avx512F_available_
  /\ DotProduct = "DotProductGeneric"

====
